---- MODULE Spec2Model ----
(***************************************************************************)
(* Investigation Case Manager (src/main.py, src/schemas.py).               *)
(*                                                                         *)
(* The store holds two collections, "case" and "evidence".  Every request  *)
(* handler of main.py is an operator that maps the request and the current *)
(* store to a response and the store after the request; the actions apply  *)
(* the handlers to inputs drawn from small sets.  add_evidence is split at *)
(* the point between its find_one and its insert, which the store does not *)
(* make atomic.                                                            *)
(*                                                                         *)
(* Python's Optional[T] is modelled as a sequence of length at most one:   *)
(* None is <<>> and a value v is <<v>>.  Every field of a request model or *)
(* of a stored document is held in that form.                              *)
(***************************************************************************)
EXTENDS Integers, Sequences, FiniteSets, TLC

\* ---------------------------------------------------------------- bounds
MaxCases    == 2   \* case documents created in one run
MaxEvidence == 2   \* evidence documents created or in flight in one run
MaxInflight == 1   \* add_evidence requests between their check and insert
MaxLimit    == 2   \* largest `limit` query parameter tried

\* ------------------------------------------------------- Optional values
None == <<>>
Some(v) == <<v>>

\* --------------------------------------------------- ObjectId <-> string
\* A native identifier is a position in OidText.  str(ObjectId) is the
\* lowercase hexadecimal text of the identifier (24 digits in the program,
\* abbreviated to 2 here).  ObjectId(text) accepts any 24 hexadecimal
\* digits, in either letter case, and raises InvalidId for every other
\* string; the handlers never catch InvalidId.
OidText == <<"c1", "c2", "c3", "e1", "e2", "e3", "ff">>
OidTextUpper == <<"C1", "C2", "C3", "E1", "E2", "E3", "FF">>
Oids == DOMAIN OidText
InvalidId == 0

str(oid) == OidText[oid]

ObjectId(text) ==
    IF \E n \in Oids : text = OidText[n] \/ text = OidTextUpper[n]
    THEN CHOOSE n \in Oids : text = OidText[n] \/ text = OidTextUpper[n]
    ELSE InvalidId

\* The store hands out identifiers that are unique across its collections:
\* those of cases come from CasePool, those of evidence from EvidencePool,
\* and the last one of OidText is never assigned.
CasePool == {n \in Oids : OidText[n] \in {"c1", "c2", "c3"}}
EvidencePool == {n \in Oids : OidText[n] \in {"e1", "e2", "e3"}}
NeverAssigned == "ff"

\* ------------------------------------------------------------- variables
VARIABLES
    db,        \* "connected", or "none" when the database import failed
    cases,     \* collection "case": native id -> document
    evidence,  \* collection "evidence": native id -> document
    inflight,  \* add_evidence requests that passed the existence check
    resp,      \* the last response sent: handler and HTTP status
    created,   \* history: id returned by create_case -> the payload sent
    updated    \* history: native ids of the cases an update has matched

vars == <<db, cases, evidence, inflight, resp, created, updated>>

\* ------------------------------------------------------------ HTTP codes
OK == 200
NotFound == 404
Unprocessable == 422
ServerError == 500

\* ----------------------------------------------------------- as_str_id
\* doc is a stored document and oid its "_id": the "_id" key is replaced
\* by "id" holding str(oid).  as_str_id_keep is the fault of leaving the
\* document as it is stored.
as_str_id_keep(oid, doc) == doc
as_str_id(oid, doc) ==
    [f \in DOMAIN doc \cup {"id"} |-> IF f = "id" THEN Some(str(oid)) ELSE doc[f]]

\* ------------------------------------------------------------- schemas
UpdatableFields == {"status", "notes", "risk_score"}

RiskScoreMin == 0
RiskScoreMax == 100

\* Field(None, ge=0, le=100).  ValidRiskScoreOff is the fault of an upper
\* limit that is off by one.
ValidRiskScoreOff(r) == r = None \/ (r[1] >= RiskScoreMin /\ r[1] <= RiskScoreMax + 1)
ValidRiskScore(r) == r = None \/ (r[1] >= RiskScoreMin /\ r[1] <= RiskScoreMax)

\* CaseCreate: username is required, the rest default to None.
ValidCaseCreate(p) == p.username # None

\* CaseUpdate
ValidCaseUpdate(p) == ValidRiskScore(p.risk_score)

\* Case.status = Field("open", ...).  DefaultStatusClosed is the fault of
\* another default.
DefaultStatusClosed == "closed"
DefaultStatus == "open"

\* Case(**payload.model_dump()): the document that is stored.
CaseSchema(p) ==
    [username |-> p.username, allegations |-> p.allegations,
     reporter_name |-> p.reporter_name, reporter_contact |-> p.reporter_contact,
     status |-> Some(DefaultStatus), risk_score |-> None, notes |-> None]

\* Evidence(**payload.model_dump())
EvidenceSchema(p) ==
    [case_id |-> Some(p.case_id), type |-> Some(p.type),
     url |-> p.url, description |-> p.description]

\* ------------------------------------------------------- store gateway
\* insert: the new document gets a fresh identifier of the pool.
FreshOid(coll, pool) == CHOOSE n \in pool :
    /\ n \notin DOMAIN coll
    /\ \A m \in pool : m < n => m \in DOMAIN coll

\* create_document(collection, data): the collection after the insert.
create_document(coll, pool, data) ==
    [n \in DOMAIN coll \cup {FreshOid(coll, pool)} |->
        IF n = FreshOid(coll, pool) THEN data ELSE coll[n]]

\* get_documents(collection, filter, limit): the possible results, each a
\* sequence of identifiers of distinct documents that match every entry of
\* the filter exactly, capped at limit, in an order the store chooses.
Matches(doc, filter) == \A f \in DOMAIN filter : doc[f] = Some(filter[f])

Min(a, b) == IF a < b THEN a ELSE b

get_documents(coll, filter, limit) ==
    LET hits == {n \in DOMAIN coll : Matches(coll[n], filter)}
        k == Min(limit, Cardinality(hits))
    IN {s \in [1..k -> hits] : \A i, j \in 1..k : s[i] = s[j] => i = j}

\* find_one({"_id": oid}) on the case collection.  find_any is the fault
\* of a lookup that finds a document whatever the identifier.
find_any(oid) ==
    IF oid \in DOMAIN cases THEN Some(cases[oid])
    ELSE Some([username |-> Some("nobody")])
find_one(oid) == IF oid \in DOMAIN cases THEN Some(cases[oid]) ELSE None

\* model_dump(exclude_none=True): the fields of the payload that are not
\* None.  include_none is the fault of keeping every field.
include_none(p) == p
exclude_none(p) == [f \in {g \in DOMAIN p : p[g] # None} |-> p[f]]

\* update_one({"_id": oid}, {"$set": updates}).  replace_fields is the
\* fault of replacing the updatable fields by the updates instead of
\* merging the updates into them.
replace_fields(doc, updates) ==
    [f \in DOMAIN doc |->
        IF f \in DOMAIN updates THEN updates[f]
        ELSE IF f \in UpdatableFields THEN None ELSE doc[f]]
set_fields(doc, updates) ==
    [f \in DOMAIN doc \cup DOMAIN updates |->
        IF f \in DOMAIN updates THEN updates[f] ELSE doc[f]]

\* res.matched_count == 0.  no_miss is the fault of never seeing a miss.
no_miss(oid) == FALSE
matched_none(oid) == oid \notin DOMAIN cases

\* ------------------------------------------------------------- handlers
\* Each handler gives the HTTP status of its response, its body (None
\* when the request fails) and both collections as they are after the
\* request.  An exception no handler catches (InvalidId from ObjectId, the
\* exception of the database helpers) is answered by the framework with
\* status 500; a payload the request model rejects is answered with 422
\* before the handler runs.
Raise(status) ==
    [status |-> status, body |-> None, cases |-> cases, evidence |-> evidence]
Return(body) ==
    [status |-> OK, body |-> Some(body), cases |-> cases, evidence |-> evidence]

\* POST /api/cases: the body is the id of the new case.
create_case(p) ==
    IF ~ValidCaseCreate(p) THEN Raise(Unprocessable)
    ELSE IF db = "none" THEN Raise(ServerError)
    ELSE [Return(str(FreshOid(cases, CasePool))) EXCEPT
            !.cases = create_document(cases, CasePool, CaseSchema(p))]

\* GET /api/cases/{case_id}: the body is the case with its public id.
get_case(case_id) ==
    IF db = "none" THEN Raise(ServerError)
    ELSE IF ObjectId(case_id) = InvalidId THEN Raise(ServerError)
    ELSE LET doc == find_one(ObjectId(case_id)) IN
         IF doc = None THEN Raise(NotFound)
         ELSE Return(as_str_id(ObjectId(case_id), doc[1]))

\* PATCH /api/cases/{case_id}: the body is the value of "updated".
update_case(case_id, p) ==
    IF ~ValidCaseUpdate(p) THEN Raise(Unprocessable)
    ELSE IF db = "none" THEN Raise(ServerError)
    ELSE LET updates == exclude_none(p) IN
         IF \A f \in DOMAIN updates : FALSE THEN Return(FALSE)
         ELSE IF ObjectId(case_id) = InvalidId THEN Raise(ServerError)
         ELSE IF matched_none(ObjectId(case_id)) THEN Raise(NotFound)
         ELSE [Return(TRUE) EXCEPT
                 !.cases = [cases EXCEPT ![ObjectId(case_id)] = set_fields(@, updates)]]

\* POST /api/evidence, up to the existence check: the body is TRUE when the
\* handler goes on to the insert.
add_evidence_check(p) ==
    IF db = "none" THEN Raise(ServerError)
    ELSE IF ObjectId(p.case_id) = InvalidId THEN Raise(ServerError)
    ELSE IF find_one(ObjectId(p.case_id)) = None THEN Raise(NotFound)
    ELSE Return(TRUE)

\* POST /api/evidence, the insert: the body is the id of the new evidence.
add_evidence_insert(p) ==
    [Return(str(FreshOid(evidence, EvidencePool))) EXCEPT
        !.evidence = create_document(evidence, EvidencePool, EvidenceSchema(p))]

\* GET /api/cases: the filter holds the parameters that are truthy.
Truthy(v) == v # None /\ v # Some("")

list_cases_filter(username, status) ==
    LET given == [username |-> username, status |-> status]
    IN [f \in {g \in DOMAIN given : Truthy(given[g])} |-> given[f][1]]

list_cases(username, status, limit) ==
    IF db = "none" THEN [status |-> ServerError, bodies |-> {}]
    ELSE [status |-> OK,
          bodies |-> {[i \in DOMAIN s |-> as_str_id(s[i], cases[s[i]])] :
                        s \in get_documents(cases, list_cases_filter(username, status), limit)}]

\* GET /api/cases/{case_id}/evidence: case_id is matched as a string.
\* list_evidence_nofilter is the fault of passing an empty filter.
list_evidence_nofilter(case_id) == [f \in {} |-> case_id]
list_evidence_filter(case_id) == [f \in {"case_id"} |-> case_id]

list_evidence(case_id, limit) ==
    IF db = "none" THEN [status |-> ServerError, bodies |-> {}]
    ELSE [status |-> OK,
          bodies |-> {[i \in DOMAIN s |-> as_str_id(s[i], evidence[s[i]])] :
                        s \in get_documents(evidence, list_evidence_filter(case_id), limit)}]

\* ---------------------------------------------------------------- inputs
CaseCreateOf(u) ==
    [username |-> u, allegations |-> Some("fraud"), reporter_name |-> None,
     reporter_contact |-> None]
CaseCreates == {CaseCreateOf(Some("scammer123")), CaseCreateOf(None)}
CaseCreatesWide == CaseCreates \cup {CaseCreateOf(Some("")), CaseCreateOf(Some("victim_7"))}

RiskScores == {RiskScoreMin - 1, RiskScoreMin, RiskScoreMax, RiskScoreMax + 1}
CaseUpdates ==
    [status : {None, Some("closed")}, notes : {None, Some("seen")},
     risk_score : {None} \cup {Some(r) : r \in RiskScores}]
CaseUpdatesBrief == {p \in CaseUpdates : p.risk_score = None}

\* The lowercase text of every case identifier the store can assign, one
\* uppercase spelling, a well-formed text of an identifier that is never assigned, and a
\* malformed text.
Malformed == "not-an-id"
IdInputs ==
    {str(n) : n \in {m \in CasePool : m <= MaxCases}}
    \cup {"C1", NeverAssigned, Malformed}

EvidenceCreates ==
    [case_id : IdInputs, type : {"screenshot"}, url : {None}, description : {None}]

Limits == 0..MaxLimit
UsernameFilters == {None, Some(""), Some("scammer123")}
StatusFilters == {None, Some(""), Some("open"), Some("closed")}

\* ----------------------------------------------------------------- Init
Reply(op, status) == [op |-> op, status |-> status, updated |-> None]

Init ==
    /\ db \in {"connected", "none"}
    /\ cases = [n \in {} |-> None]
    /\ evidence = [n \in {} |-> None]
    /\ inflight = [i \in 1..MaxInflight |-> None]
    /\ resp = Reply("start", OK)
    /\ created = [n \in {} |-> None]
    /\ updated = {}

\* -------------------------------------------------------------- actions
CreateCaseOf(p) ==
    LET r == create_case(p) IN
    /\ Cardinality(DOMAIN cases) < MaxCases
    /\ cases' = r.cases
    /\ evidence' = r.evidence
    /\ resp' = Reply("create_case", r.status)
    /\ created' = IF r.status = OK
                  THEN [id \in DOMAIN created \cup {r.body[1]} |->
                          IF id \in DOMAIN created THEN created[id] ELSE p]
                  ELSE created
    /\ UNCHANGED <<db, inflight, updated>>

CreateCase == \E p \in CaseCreates : CreateCaseOf(p)

CreateCaseWide == \E p \in CaseCreatesWide : CreateCaseOf(p)

GetCaseOf(c) ==
    /\ resp' = Reply("get_case", get_case(c).status)
    /\ UNCHANGED <<db, cases, evidence, inflight, created, updated>>

GetCase == \E c \in IdInputs : GetCaseOf(c)

UpdateCaseOf(c, p) ==
    LET r == update_case(c, p) IN
    /\ cases' = r.cases
    /\ evidence' = r.evidence
    /\ resp' = [op |-> "update_case", status |-> r.status, updated |-> r.body]
    /\ updated' = IF r.body = Some(TRUE) THEN updated \cup {ObjectId(c)} ELSE updated
    /\ UNCHANGED <<db, inflight, created>>

UpdateCase == \E c \in IdInputs, p \in CaseUpdates : UpdateCaseOf(c, p)

UpdateCaseBrief == \E c \in IdInputs, p \in CaseUpdatesBrief : UpdateCaseOf(c, p)

Busy == {i \in DOMAIN inflight : inflight[i] # None}

AddEvidenceCheckOf(p) ==
    LET r == add_evidence_check(p) IN
    /\ Cardinality(DOMAIN evidence) + Cardinality(Busy) < MaxEvidence
    /\ IF r.body = Some(TRUE)
       THEN /\ \E i \in DOMAIN inflight :
                  /\ inflight[i] = None
                  /\ inflight' = [inflight EXCEPT ![i] = Some(p)]
            /\ UNCHANGED resp
       ELSE /\ resp' = Reply("add_evidence", r.status)
            /\ UNCHANGED inflight
    /\ UNCHANGED <<db, cases, evidence, created, updated>>

AddEvidenceCheck == \E p \in EvidenceCreates : AddEvidenceCheckOf(p)

AddEvidenceInsertOf(i) ==
    LET r == add_evidence_insert(inflight[i][1]) IN
    /\ inflight[i] # None
    /\ cases' = r.cases
    /\ evidence' = r.evidence
    /\ inflight' = [inflight EXCEPT ![i] = None]
    /\ resp' = Reply("add_evidence", r.status)
    /\ UNCHANGED <<db, created, updated>>

AddEvidenceInsert == \E i \in DOMAIN inflight : AddEvidenceInsertOf(i)

ListCasesOf(u, s, n) ==
    /\ resp' = Reply("list_cases", list_cases(u, s, n).status)
    /\ UNCHANGED <<db, cases, evidence, inflight, created, updated>>

ListCases == \E u \in UsernameFilters, s \in StatusFilters, n \in Limits : ListCasesOf(u, s, n)

ListEvidenceOf(c, n) ==
    /\ resp' = Reply("list_evidence", list_evidence(c, n).status)
    /\ UNCHANGED <<db, cases, evidence, inflight, created, updated>>

ListEvidence == \E c \in IdInputs, n \in Limits : ListEvidenceOf(c, n)

Next ==
    \/ CreateCase
    \/ GetCase
    \/ UpdateCase
    \/ AddEvidenceCheck
    \/ AddEvidenceInsert
    \/ ListCases
    \/ ListEvidence

Spec == Init /\ [][Next]_vars

\* The case handlers alone: the evidence collection stays empty.
NextCases ==
    \/ CreateCase
    \/ GetCase
    \/ UpdateCase
    \/ ListCases

SpecCases == Init /\ [][NextCases]_vars

\* The evidence handlers with case creation: stored cases keep the fields
\* they were created with.
NextEvidence ==
    \/ CreateCase
    \/ GetCase
    \/ AddEvidenceCheck
    \/ AddEvidenceInsert
    \/ ListEvidence

SpecEvidence == Init /\ [][NextEvidence]_vars

\* The case handlers with more usernames and updates of status and notes.
NextNames ==
    \/ CreateCaseWide
    \/ GetCase
    \/ UpdateCaseBrief
    \/ ListCases

SpecNames == Init /\ [][NextNames]_vars

\* ---------------------------------------------------------------- claims
Connected == db = "connected"
WellFormed(text) == ObjectId(text) # InvalidId
Resolves(text) == WellFormed(text) /\ ObjectId(text) \in DOMAIN cases
StoreUnchanged == cases' = cases /\ evidence' = evidence /\ inflight' = inflight
Untouched(r) == r.cases = cases /\ r.evidence = evidence
NoFields == [status |-> None, notes |-> None, risk_score |-> None]
Updated(flag) == [op |-> "update_case", status |-> OK, updated |-> Some(flag)]

\* C1: in every reachable state, the case_id of every stored evidence
\* document is the public id (the str() of the native id) of a stored case.
C1_EvidenceCaseIdIsPublicId ==
    \A e \in DOMAIN evidence :
        \E n \in DOMAIN cases : evidence[e].case_id = Some(str(n))

\* The step of a request that fails the existence check, and what the
\* handler answers to such a request in any state.
C2_Step ==
    resp'.op = "add_evidence" =>
        \A p \in EvidenceCreates :
            (AddEvidenceCheckOf(p) /\ Connected /\ ~Resolves(p.case_id)) =>
                /\ StoreUnchanged
                /\ resp'.status # OK
                /\ WellFormed(p.case_id) => resp'.status = NotFound

C2_Inv ==
    \A p \in EvidenceCreates :
        (Connected /\ ~Resolves(p.case_id)) =>
            /\ add_evidence_check(p).body = None
            /\ Untouched(add_evidence_check(p))
            /\ WellFormed(p.case_id) => add_evidence_check(p).status = NotFound

C3_Inv ==
    \A c \in IdInputs, p \in CaseUpdates :
        LET r == update_case(c, p) IN
        (r.status = OK /\ r.body = Some(TRUE)) =>
            /\ ObjectId(c) \in DOMAIN cases
            /\ DOMAIN r.cases = DOMAIN cases
            /\ r.evidence = evidence
            /\ \A n \in DOMAIN cases :
                /\ DOMAIN r.cases[n] = DOMAIN cases[n]
                /\ \A f \in DOMAIN cases[n] :
                    r.cases[n][f] =
                        IF n = ObjectId(c) /\ f \in UpdatableFields /\ p[f] # None
                        THEN p[f] ELSE cases[n][f]

C3_Step ==
    /\ DOMAIN cases \subseteq DOMAIN cases'
    /\ resp' = Updated(TRUE) => (evidence' = evidence /\ inflight' = inflight)

\* C3: a successful update-case request sets, on the addressed case, each
\* supplied field among status, notes and risk_score to the supplied value
\* and changes nothing else: not another field of that case, not another
\* case, not the set of cases, not the evidence.  No step removes a case.
C3_UpdateChangesOnlySuppliedFields == []C3_Inv /\ [][C3_Step]_vars

C3_Witness ==
    /\ resp = Updated(TRUE)
    /\ \E n, m \in DOMAIN cases :
        /\ n # m
        /\ cases[n].notes = Some("seen") /\ cases[n].status = Some("open")
        /\ cases[n].risk_score = None
        /\ cases[m].status = Some("closed") /\ cases[m].notes = None

\* The step of an update-case request with the empty payload.
C4_Step ==
    resp'.op = "update_case" =>
        \A c \in IdInputs :
            (UpdateCaseOf(c, NoFields) /\ Connected) =>
                /\ resp' = Updated(FALSE)
                /\ StoreUnchanged
                /\ \A g \in IdInputs : get_case(g)' = get_case(g)

\* C4: with the store connected, an update-case request that supplies no
\* field is answered {updated: false} whatever its id (malformed ids
\* included), writes nothing, and every get-case returns afterwards what it
\* returned before.
C4_EmptyUpdateIsNoOp == [][C4_Step]_vars

C4_Witness ==
    /\ resp = Updated(FALSE)
    /\ \E n \in DOMAIN cases : cases[n].notes = Some("seen")

\* The step of an update-case request for a well-formed id of no case.
C5_OriginalStep ==
    \A c \in IdInputs, p \in CaseUpdates :
        (UpdateCaseOf(c, p) /\ Connected /\ ValidCaseUpdate(p)
            /\ WellFormed(c) /\ ~Resolves(c)) =>
            /\ resp'.status = NotFound
            /\ StoreUnchanged

C6_CreatedCaseIsReadBack ==
    /\ \A id \in DOMAIN created :
        ObjectId(id) \notin updated =>
            /\ get_case(id).status = OK
            /\ get_case(id).body # None
            /\ get_case(id).body[1].id = Some(id)
            /\ get_case(id).body[1].username = created[id].username
            /\ get_case(id).body[1].status = Some("open")
    /\ \A p \in CaseCreatesWide :
        (Cardinality(DOMAIN cases) < MaxCases /\ create_case(p).status = OK) =>
            /\ create_case(p).body # None
            /\ \A n \in DOMAIN cases : create_case(p).body # Some(str(n))
            /\ WellFormed(create_case(p).body[1])
            /\ ObjectId(create_case(p).body[1]) \in DOMAIN create_case(p).cases
C6_Witness ==
    /\ resp.op = "get_case" /\ resp.status = OK
    /\ \E a, b \in DOMAIN created :
        /\ ObjectId(a) \notin updated /\ ObjectId(b) \in updated
        /\ created[a].username # created[b].username

\* The step of a request that carries a malformed id.
C7_Step ==
    \A c \in IdInputs :
        (Connected /\ ~WellFormed(c)) =>
            /\ GetCaseOf(c) => (resp'.status \in {400, 404} /\ StoreUnchanged)
            /\ \A p \in CaseUpdates :
                (UpdateCaseOf(c, p) /\ ValidCaseUpdate(p))
                    => (resp'.status \in {400, 404} /\ StoreUnchanged)
            /\ \A p \in EvidenceCreates :
                (AddEvidenceCheckOf(p) /\ p.case_id = c)
                    => (resp'.status \in {400, 404} /\ StoreUnchanged)

\* C7: with the store connected, a get-case, update-case or add-evidence
\* request whose case id is malformed is answered with status 400 or 404
\* and leaves the store unchanged.
C7_MalformedIdIsClientError == [][C7_Step]_vars

\* C8: an update-case request that carries risk_score r is rejected with
\* 422, the store unchanged, exactly when r < 0 or r > 100, and an accepted
\* one that matches a case stores r; the risk_score of every stored case is
\* absent or in 0..100.
C8_RiskScoreInRange ==
    /\ \A n \in DOMAIN cases :
        \/ cases[n].risk_score = None
        \/ cases[n].risk_score[1] \in 0..100
    /\ \A c \in IdInputs, p \in CaseUpdates :
        p.risk_score # None =>
            /\ update_case(c, p).status = Unprocessable <=> ~(p.risk_score[1] \in 0..100)
            /\ update_case(c, p).status = Unprocessable => Untouched(update_case(c, p))
            /\ (Resolves(c) /\ Connected /\ p.risk_score[1] \in 0..100)
                  => update_case(c, p).cases[ObjectId(c)].risk_score = p.risk_score

C8_Witness ==
    /\ resp.op = "update_case" /\ resp.status = Unprocessable
    /\ \E n, m \in DOMAIN cases :
        cases[n].risk_score = Some(0) /\ cases[m].risk_score = Some(100)

\* C9: with the store connected, every result of list-evidence for case id
\* c and limit n has at most n records, and each is a distinct stored
\* evidence document whose case_id is c, with "id" holding its public id.
C9_ListEvidenceOnlyOfCase ==
    \A c \in IdInputs, n \in Limits :
        Connected =>
            /\ list_evidence(c, n).status = OK
            /\ list_evidence(c, n).bodies # {}
            /\ \A body \in list_evidence(c, n).bodies :
                /\ Len(body) <= n
                /\ \A i \in DOMAIN body :
                    /\ body[i].case_id = Some(c)
                    /\ "id" \in DOMAIN body[i]
                    /\ \E e \in DOMAIN evidence :
                        /\ body[i].id = Some(str(e))
                        /\ evidence[e].case_id = Some(c)
                        /\ \A f \in DOMAIN evidence[e] : body[i][f] = evidence[e][f]
                    /\ \A j \in DOMAIN body : body[j].id = body[i].id => i = j

C9_Witness ==
    /\ resp = Reply("list_evidence", OK)
    /\ \E e, f \in DOMAIN evidence :
        /\ evidence[e].case_id # evidence[f].case_id
        /\ \E body \in list_evidence(evidence[e].case_id[1], MaxLimit).bodies : Len(body) = 1

\* C10: every case that list-cases returns matches each parameter that was
\* provided (not None).
C10_ListCasesMatchesProvided ==
    \A u \in UsernameFilters, s \in StatusFilters, n \in Limits :
        \A body \in list_cases(u, s, n).bodies :
            \A i \in DOMAIN body :
                /\ u # None => body[i].username = u
                /\ s # None => body[i].status = s

====
